---- MODULE Spec2Model ----
(***************************************************************************)
(* Order service (order-service/main.go): an HTTP server with a health     *)
(* probe and an order-submission endpoint that keeps orders in a global,   *)
(* unsynchronised Go map.  net/http runs every request in its own          *)
(* goroutine, so the handlers below interleave at their accesses to the    *)
(* shared map.                                                             *)
(***************************************************************************)
EXTENDS Integers, Sequences, FiniteSets, TLC

\* Number of HTTP requests the server receives in one run.
MaxRequests == 2
Requests == 1..MaxRequests

UUIDPool == <<"uuid-1", "uuid-2", "uuid-3", "uuid-4">>
\* The values the random identifier source produces: one for every request.
UUIDs == {UUIDPool[i] : i \in Requests}

\* A nil Go error; a non-nil error is the tuple of the pieces of its message.
Nil == <<>>

(***************************************************************************)
(* JSON values and request bodies                                          *)
(***************************************************************************)
JNull == [t |-> "null"]
JStr(s) == [t |-> "str", s |-> s]
JArr(a) == [t |-> "arr", a |-> a]

\* A member that the object does not have.
JAbsent == [t |-> "absent"]

\* A body is a syntactically valid JSON object (ok) or not.  An object is given
\* by the members the Order struct has tags for; other says whether it has
\* members with other names as well.
JObject(id, item_ids, status, other) ==
    [ok |-> TRUE, id |-> id, item_ids |-> item_ids, status |-> status,
     other |-> other]
Malformed ==
    [ok |-> FALSE, id |-> JAbsent, item_ids |-> JAbsent, status |-> JAbsent,
     other |-> FALSE]

Bodies ==
    { Malformed,                                          \* {"item_ids": [
      JObject(JAbsent, JAbsent, JAbsent, FALSE),          \* {}
      JObject(JAbsent, JNull, JAbsent, FALSE),            \* {"item_ids": null}
      JObject(JAbsent, JStr("item-1"), JAbsent, FALSE),   \* {"item_ids": "item-1"}
      JObject(JAbsent, JArr(<<"item-1", "item-2">>), JAbsent, FALSE),
      JObject(JStr("uuid-1"), JArr(<<"item-2", "item-1">>), JStr("confirmed"),
              FALSE),
      JObject(JAbsent, JArr(<<>>), JStr("bogus"), TRUE) }

(***************************************************************************)
(* type Order struct                                                       *)
(***************************************************************************)
NilSlice == [nil |-> TRUE, elems |-> <<>>]
Slice(a) == [nil |-> FALSE, elems |-> a]

Order(id, items, status) == [ID |-> id, ItemIDs |-> items, Status |-> status]
ZeroOrder == Order("", NilSlice, "")

\* json.NewDecoder(r.Body).Decode(&newOrder) into a zero Order: a member that
\* is absent or null leaves its field at the zero value, a member of another
\* type is an error, members with other names are ignored.
FieldOK(member, t) == member.t \in {"absent", "null", t}

StringField(member) == IF member.t = "str" THEN member.s ELSE ""

SliceField(member) == IF member.t = "arr" THEN Slice(member.a) ELSE NilSlice

Decode(body) ==
    IF ~body.ok
    THEN [err |-> <<"unexpected EOF">>, order |-> ZeroOrder]
    ELSE IF ~(/\ FieldOK(body.id, "str")
              /\ FieldOK(body.item_ids, "arr")
              /\ FieldOK(body.status, "str"))
    THEN [err |-> <<"json: cannot unmarshal">>, order |-> ZeroOrder]
    ELSE [err |-> Nil,
          order |-> Order(StringField(body.id), SliceField(body.item_ids),
                          StringField(body.status))]

\* json.NewEncoder(w).Encode(newOrder): a nil slice is written as null.
Encode(o) ==
    [id |-> JStr(o.ID),
     item_ids |-> IF o.ItemIDs.nil THEN JNull ELSE JArr(o.ItemIDs.elems),
     status |-> JStr(o.Status)]

(***************************************************************************)
(* findService                                                             *)
(***************************************************************************)
CatalogServiceName == "food-catalog-service"

findService_NoName(serviceName) ==
    IF serviceName = "food-catalog-service"
    THEN [addr |-> "http://food-catalog-service:8080", err |-> Nil]
    ELSE [addr |-> "http://food-catalog-service:8080",
          err |-> <<"service not found">>]

findService(serviceName) ==
    IF serviceName = "food-catalog-service"
    THEN [addr |-> "http://food-catalog-service:8080", err |-> Nil]
    ELSE [addr |-> "", err |-> <<"service ", serviceName, " not found">>]

\* Names findService is applied to when it is checked as a function.
ServiceNames ==
    {"food-catalog-service", "Food-Catalog-Service", "food-catalog",
     "order-service", ""}

(***************************************************************************)
(* Responses                                                               *)
(***************************************************************************)
EmptyBody == [kind |-> "empty"]
TextBody(msg) == [kind |-> "text", text |-> msg]
JSONBody(j) == [kind |-> "json", json |-> j]

NoResponse == [code |-> 0, body |-> EmptyBody]
Response(code, body) == [code |-> code, body |-> body]

\* A request without a body: reading it as JSON fails.
NoBody == Malformed

NoRequest == [method |-> "", path |-> <<>>, body |-> NoBody]
Request(method, path, body) == [method |-> method, path |-> path, body |-> body]

\* make(map[string]Order)
EmptyStore == [k \in {} |-> ZeroOrder]

VARIABLES
    orders,     \* var orders = make(map[string]Order)
    pc,         \* where each request's handler goroutine stands
    req,        \* the request each goroutine serves
    newOrder,   \* the handler's local newOrder
    orderID,    \* the handler's local orderID
    resp,       \* the response written to each request
    raced,      \* goroutines whose map write overlapped another one's
    crashed,    \* the runtime ended the process (fatal error)
    resolved    \* per service name, the results findService returned for it

vars == <<orders, pc, req, newOrder, orderID, resp, raced, crashed, resolved>>

Init ==
    /\ orders = EmptyStore
    /\ pc = [r \in Requests |-> "idle"]
    /\ req = [r \in Requests |-> NoRequest]
    /\ newOrder = [r \in Requests |-> ZeroOrder]
    /\ orderID = [r \in Requests |-> ""]
    /\ resp = [r \in Requests |-> NoResponse]
    /\ raced = {}
    /\ crashed = FALSE
    /\ resolved = [n \in ServiceNames |-> {}]

Finish(r, response) ==
    /\ resp' = [resp EXCEPT ![r] = response]
    /\ pc' = [pc EXCEPT ![r] = "done"]

(***************************************************************************)
(* GET /health                                                             *)
(***************************************************************************)
Health_Degraded(r) ==
    /\ ~crashed
    /\ pc[r] = "idle"
    /\ req' = [req EXCEPT ![r] = Request("GET", <<"health">>, NoBody)]
    /\ Finish(r, IF DOMAIN orders = {} THEN Response(200, EmptyBody)
                 ELSE Response(200, TextBody(<<"OK">>)))
    /\ UNCHANGED <<orders, newOrder, orderID, raced, crashed, resolved>>

Health(r) ==
    /\ ~crashed
    /\ pc[r] = "idle"
    /\ req' = [req EXCEPT ![r] = Request("GET", <<"health">>, NoBody)]
    /\ Finish(r, Response(200, EmptyBody))
    /\ UNCHANGED <<orders, newOrder, orderID, raced, crashed, resolved>>

(***************************************************************************)
(* GET /orders/{id}: the router has no such route, so chi answers with its *)
(* default NotFound handler.                                               *)
(***************************************************************************)
GetOrder(r, id) ==
    /\ ~crashed
    /\ pc[r] = "idle"
    /\ req' = [req EXCEPT ![r] = Request("GET", <<"orders", id>>, NoBody)]
    /\ Finish(r, Response(404, TextBody(<<"404 page not found">>)))
    /\ UNCHANGED <<orders, newOrder, orderID, raced, crashed, resolved>>

(***************************************************************************)
(* POST /orders                                                            *)
(***************************************************************************)
\* Lines 51-65: decode the body, 400 on a decoding error; look the catalog
\* service up, 500 when it is not found.
PostOrdersReceive(r, body) ==
    /\ ~crashed
    /\ pc[r] = "idle"
    /\ req' = [req EXCEPT ![r] = Request("POST", <<"orders">>, body)]
    /\ LET d == Decode(body)
           found == findService(CatalogServiceName)
       IN
         IF d.err # Nil
         THEN /\ Finish(r, Response(400, TextBody(d.err)))
              /\ UNCHANGED <<newOrder, resolved>>
         ELSE /\ newOrder' = [newOrder EXCEPT ![r] = d.order]
              /\ resolved' = [resolved EXCEPT ![CatalogServiceName] = @ \cup {found}]
              /\ IF found.err # Nil
                 THEN Finish(r, Response(500,
                          TextBody(<<"Food catalog service not available">>)))
                 ELSE /\ pc' = [pc EXCEPT ![r] = "uuid"]
                      /\ UNCHANGED resp
    /\ UNCHANGED <<orders, orderID, raced, crashed>>

\* uuid.GenerateUUID() (hashicorp/go-uuid): 16 bytes of crypto/rand formatted
\* as a UUID, or "" and an error when the random source cannot be read.  A
\* value drawn from the random source is taken to differ from those drawn
\* before (used).
GenerateUUID(used) ==
    {[id |-> u, err |-> Nil] : u \in UUIDs \ used}
        \cup {[id |-> "", err |-> <<"failed to read random bytes">>]}

\* The identifiers the handlers have drawn so far.
Drawn == {orderID[q] : q \in {x \in Requests : pc[x] \in {"assign", "writing", "done"}}}

PostOrdersNewID_KeepStatus(r) ==
    /\ ~crashed
    /\ pc[r] = "uuid"
    /\ UUIDs \ Drawn # {}
    /\ \E g \in GenerateUUID(Drawn) :
         /\ orderID' = [orderID EXCEPT ![r] = g.id]
         /\ newOrder' = [newOrder EXCEPT ![r] = Order(g.id, @.ItemIDs, @.Status)]
    /\ pc' = [pc EXCEPT ![r] = "assign"]
    /\ UNCHANGED <<orders, req, resp, raced, crashed, resolved>>

\* Lines 68-70: orderID, _ := uuid.GenerateUUID(); newOrder.ID = orderID;
\* newOrder.Status = "received".
PostOrdersNewID(r) ==
    /\ ~crashed
    /\ pc[r] = "uuid"
    /\ UUIDs \ Drawn # {}
    /\ \E g \in GenerateUUID(Drawn) :
         /\ orderID' = [orderID EXCEPT ![r] = g.id]
         /\ newOrder' = [newOrder EXCEPT ![r] = Order(g.id, @.ItemIDs, "received")]
    /\ pc' = [pc EXCEPT ![r] = "assign"]
    /\ UNCHANGED <<orders, req, resp, raced, crashed, resolved>>

\* m[k] = v
Put(m, k, v) == [x \in DOMAIN m \cup {k} |-> IF x = k THEN v ELSE m[x]]

\* Line 71, orders[orderID] = newOrder, entered.  The map is not guarded by
\* any lock: the goroutine starts writing whether or not another one is in
\* the middle of a write.  When one is, this is a data race; the runtime may
\* notice it ("fatal error: concurrent map writes") and end the process.
MapAssignBegin(r) ==
    /\ ~crashed
    /\ pc[r] = "assign"
    /\ LET writers == {q \in Requests \ {r} : pc[q] = "writing"} IN
         IF writers = {}
         THEN /\ pc' = [pc EXCEPT ![r] = "writing"]
              /\ UNCHANGED <<raced, crashed>>
         ELSE \/ /\ crashed' = TRUE
                 /\ UNCHANGED <<pc, raced>>
              \/ /\ pc' = [pc EXCEPT ![r] = "writing"]
                 /\ raced' = raced \cup {r} \cup writers
                 /\ UNCHANGED crashed
    /\ UNCHANGED <<orders, req, newOrder, orderID, resp, resolved>>

\* What a write that raced with another write can leave in the map: the whole
\* entry, nothing, or an entry put together from the racing writers' values.
RacedWrites(r) ==
    LET racers == {newOrder[q] : q \in raced \cup {r}} IN
      {orders}
        \cup {Put(orders, orderID[r], Order(a.ID, b.ItemIDs, c.Status)) :
                a \in racers, b \in racers, c \in racers}

\* Line 71 completed, and lines 73-75: 201 with the order as JSON.
PostOrdersStore(r) ==
    /\ ~crashed
    /\ pc[r] = "writing"
    /\ IF r \in raced
       THEN \/ /\ crashed' = TRUE
               /\ UNCHANGED <<orders, pc, resp, raced>>
            \/ /\ orders' \in RacedWrites(r)
               /\ Finish(r, Response(201, JSONBody(Encode(newOrder[r]))))
               /\ raced' = raced \ {r}
               /\ UNCHANGED crashed
       ELSE /\ orders' = Put(orders, orderID[r], newOrder[r])
            /\ Finish(r, Response(201, JSONBody(Encode(newOrder[r]))))
            /\ UNCHANGED <<raced, crashed>>
    /\ UNCHANGED <<req, newOrder, orderID, resolved>>

\* The identifiers a client may ask for.
PathIDs == UUIDs \cup {"", "no-such-order"}

Next ==
    \E r \in Requests :
        \/ Health(r)
        \/ \E id \in PathIDs : GetOrder(r, id)
        \/ \E body \in Bodies : PostOrdersReceive(r, body)
        \/ PostOrdersNewID(r)
        \/ MapAssignBegin(r)
        \/ PostOrdersStore(r)

Spec == Init /\ [][Next]_vars

(***************************************************************************)
(* findService as a function: applied to any name, from any state the      *)
(* server is in after at most one completed submission.                    *)
(***************************************************************************)
AcceptedBodies == {b \in Bodies : Decode(b).err = Nil}

InitResolve ==
    \/ Init
    \/ \E b \in AcceptedBodies, g \in GenerateUUID({}) :
         LET o == Order(g.id, Decode(b).order.ItemIDs, "received") IN
           /\ orders = Put(EmptyStore, g.id, o)
           /\ pc = [r \in Requests |-> IF r = 1 THEN "done" ELSE "idle"]
           /\ req = [r \in Requests |->
                       IF r = 1 THEN Request("POST", <<"orders">>, b) ELSE NoRequest]
           /\ newOrder = [r \in Requests |-> IF r = 1 THEN o ELSE ZeroOrder]
           /\ orderID = [r \in Requests |-> IF r = 1 THEN g.id ELSE ""]
           /\ resp = [r \in Requests |->
                        IF r = 1 THEN Response(201, JSONBody(Encode(o)))
                        ELSE NoResponse]
           /\ raced = {}
           /\ crashed = FALSE
           /\ resolved = [n \in ServiceNames |->
                            IF n = CatalogServiceName
                            THEN {findService(CatalogServiceName)} ELSE {}]

Resolve(serviceName) ==
    /\ resolved' = [resolved EXCEPT ![serviceName] = @ \cup {findService(serviceName)}]
    /\ UNCHANGED <<orders, pc, req, newOrder, orderID, resp, raced, crashed>>

NextResolve == \E serviceName \in ServiceNames : Resolve(serviceName)

SpecResolve == InitResolve /\ [][NextResolve]_vars

(***************************************************************************)
(* Properties                                                              *)
(***************************************************************************)
IsPost(r) == req[r].method = "POST"
Created(r) == pc[r] = "done" /\ resp[r].code = 201
\* The order a 201 response carries, read back from its JSON body.
ReturnedOrder(r) ==
    LET j == resp[r].body.json IN
      Decode(JObject(j.id, j.item_ids, j.status, FALSE)).order
ItemListMissing(body) == body.ok /\ body.item_ids.t \in {"absent", "null"}
Issued(id) == \E q \in Requests : Created(q) /\ ReturnedOrder(q).ID = id

\* The handler looks up the one name findService knows, so the lookup never
\* fails and no submission is answered 500.
NoDependencyFailure ==
    \A r \in Requests : resp[r].code # 500 /\ findService(CatalogServiceName).err = Nil

\* C2: a submission whose payload is malformed, or whose item list is missing
\* or null, is answered 400 at once and never reaches the order store.
C2_ValidationGate ==
    \A r \in Requests :
        (IsPost(r) /\ (~req[r].body.ok \/ ItemListMissing(req[r].body)))
            => (pc[r] = "done" /\ resp[r].code = 400)

\* C3: the ids of the successful submissions are non-blank and pairwise
\* distinct, also when identifier generation reports an error.
C3_Uniqueness ==
    \A r \in Requests :
        Created(r) =>
            /\ ReturnedOrder(r).ID # ""
            /\ \A q \in Requests \ {r} :
                   Created(q) => ReturnedOrder(q).ID # ReturnedOrder(r).ID

\* C4: no two handlers are inside an access to the order store at the same
\* time, and every entry of the store is a complete order that one handler
\* wrote under its id.
C4_AtomicVisibility ==
    /\ Cardinality({r \in Requests : pc[r] = "writing"}) <= 1
    /\ \A k \in DOMAIN orders :
           \E r \in Requests : orderID[r] = k /\ orders[k] = newOrder[r]

\* C5: while the process runs, the order returned by a successful submission
\* is the one the store holds under its id, with the item ids the caller
\* submitted, in the caller's order, and status received.
C5_RoundTrip ==
    ~crashed =>
        \A r \in Requests :
            Created(r) =>
                LET o == ReturnedOrder(r) IN
                  /\ o.ID \in DOMAIN orders
                  /\ orders[o.ID] = o
                  /\ o.ItemIDs = Decode(req[r].body).order.ItemIDs
                  /\ o.Status = "received"

StatusVocabulary == {"received", "validated", "confirmed", "rejected"}
Forward(a, b) ==
    \/ a = b
    \/ <<a, b>> \in {<<"received", "validated">>, <<"validated", "confirmed">>,
                     <<"received", "confirmed">>, <<"received", "rejected">>}

\* C6: every step leaves every stored order with a status of the vocabulary,
\* stores a new order with status received, returns a created order with
\* status received, and moves no stored order's status backward.
C6_StatusValidity ==
    [][ /\ \A k \in DOMAIN orders' : orders'[k].Status \in StatusVocabulary
        /\ \A k \in DOMAIN orders' \ DOMAIN orders : orders'[k].Status = "received"
        /\ \A k \in DOMAIN orders \cap DOMAIN orders' :
               Forward(orders[k].Status, orders'[k].Status)
        /\ \A r \in Requests :
               (pc[r] # "done" /\ pc'[r] = "done" /\ resp'[r].code = 201)
                   => resp'[r].body.json.status = JStr("received")
      ]_vars

\* A submission whose payload carried the status "bogus" was stored as received.
C6_Witness ==
    \E r \in Requests :
        /\ Created(r)
        /\ req[r].body.status = JStr("bogus")
        /\ orderID[r] \in DOMAIN orders
        /\ orders[orderID[r]].Status = "received"

\* C7: findService returns the catalog address and no error for the catalog
\* service name; for any other name no address and an error that carries the
\* name; a name never has two different results; a lookup changes nothing of
\* the order store or of the requests.
C7_ServiceResolution ==
    [][ /\ \A n \in ServiceNames : \A res \in resolved'[n] :
              IF n = CatalogServiceName
              THEN res.addr = "http://food-catalog-service:8080" /\ res.err = Nil
              ELSE /\ res.addr = ""
                   /\ res.err # Nil
                   /\ \E i \in 1..Len(res.err) : res.err[i] = n
        /\ \A n \in ServiceNames : Cardinality(resolved'[n]) <= 1
        /\ orders' = orders
      ]_vars

\* Known and unknown names were looked up while the store held an order.
C7_Witness ==
    /\ resolved[CatalogServiceName] # {}
    /\ resolved["order-service"] # {}
    /\ resolved[""] # {}
    /\ DOMAIN orders # {}

\* C8: GET /orders/{id} answers 200 with the order when id was issued by a
\* successful submission, and 404 when it was not.
C8_Retrieval ==
    [][ \A r \in Requests :
          (pc[r] = "idle" /\ pc'[r] = "done" /\ req'[r].method = "GET"
             /\ Len(req'[r].path) = 2)
            => LET id == req'[r].path[2] IN
                 IF Issued(id)
                 THEN /\ resp'[r].code = 200
                      /\ resp'[r].body = JSONBody(Encode(orders[id]))
                 ELSE resp'[r].code = 404
      ]_vars

\* C9: while the process runs, GET /health can be served to any request not
\* yet taken up, and serving it answers 200 with an empty body and leaves
\* the order store as it was.
C9_HealthProbe ==
    [][ \A r \in Requests :
          /\ (~crashed /\ pc[r] = "idle") => ENABLED Health(r)
          /\ (pc[r] = "idle" /\ pc'[r] = "done" /\ req'[r].path = <<"health">>)
               => /\ resp'[r] = Response(200, EmptyBody)
                  /\ orders' = orders
      ]_vars

\* The probe was answered after a submission had put an order in the store.
C9_Witness ==
    \E r \in Requests, q \in Requests :
        /\ pc[r] = "done" /\ req[r].path = <<"health">>
        /\ resp[r] = Response(200, EmptyBody)
        /\ Created(q)
        /\ DOMAIN orders # {}

\* C10: while the process runs, a finished submission was answered 201, 400
\* or 500; the store has one key for every 201, that key is the generated id
\* and holds the order of that submission, so none was overwritten.
C10_SubmissionFrame ==
    ~crashed =>
        /\ \A r \in Requests :
               (IsPost(r) /\ pc[r] = "done") => resp[r].code \in {201, 400, 500}
        /\ Cardinality(DOMAIN orders) = Cardinality({r \in Requests : Created(r)})
        /\ \A r \in Requests :
               Created(r) =>
                   /\ orderID[r] \in DOMAIN orders
                   /\ orders[orderID[r]] = newOrder[r]

====
